---- MODULE Spec2Model ----
(***************************************************************************)
(* Basic image processing builtins of mathics/builtin/image/basic.py:      *)
(* Blur, ImageAdjust, ImagePartition and Sharpen, evaluated over a heap of *)
(* numpy arrays.  An ndarray is a window onto a heap block, so that views  *)
(* (basic slicing) and in-place arithmetic are visible in the model.       *)
(***************************************************************************)
EXTENDS Integers, Sequences, FiniteSets, TLC

VARIABLES
    store,    \* heap: address -> numpy data block (or NoBlock)
    image,    \* the Image the session was started with
    call,     \* the expression evaluated last
    result,   \* what that evaluation returned
    trace,    \* external primitives invoked by that evaluation, in order
    touched   \* heap cells (addr, row, col) that evaluation read or wrote

vars == <<store, image, call, result, trace, touched>>

---------------------------------------------------------------------------
(* Bounds of the model *)

MaxH == 2        \* largest image height
MaxW == 3        \* largest image width
MaxChan == 2     \* largest number of channels
MaxTile == 3     \* largest tile size asked for
MaxParam == 1    \* largest contrast / brightness parameter (gamma: one more)
MaxRadius == 1   \* largest blur / sharpen radius given explicitly

---------------------------------------------------------------------------
(* Exact arithmetic on samples: a sample is a fraction <<n, d>>, d > 0, in *)
(* lowest terms.                                                           *)

Abs(n) == IF n < 0 THEN -n ELSE n

Min2(a, b) == IF a <= b THEN a ELSE b

Max2(a, b) == IF a >= b THEN a ELSE b

RECURSIVE Gcd(_, _)
Gcd(a, b) == IF b = 0 THEN a ELSE Gcd(b, a % b)

Frac(n, d) ==
    LET g == Gcd(Abs(n), Abs(d))
        s == IF d < 0 THEN -1 ELSE 1
    IN  <<(s * n) \div g, (s * d) \div g>>

FSub(a, b) == Frac(a[1] * b[2] - b[1] * a[2], a[2] * b[2])

FDiv(a, b) == Frac(a[1] * b[2], a[2] * b[1])

FLe(a, b) == a[1] * b[2] <= b[1] * a[2]

Zero == <<0, 1>>

One == <<1, 1>>

FMax(S) == CHOOSE m \in S : \A v \in S : FLe(v, m)

FMin(S) == CHOOSE m \in S : \A v \in S : FLe(m, v)

---------------------------------------------------------------------------
(* Heap of numpy data blocks and the ndarrays (windows) onto them *)

Addr == 1..3

NoBlock == [dtype |-> "none"]

\* The block holds px[row][col][channel]; ndim = 2 blocks hold one sample per
\* pixel.  enh lists the external primitives whose output the block is.
Block(dtype, ndim, px, enh) ==
    [dtype |-> dtype, ndim |-> ndim, px |-> px, enh |-> enh]

\* ndarray object: rows y0 .. y0+h-1 and columns x0 .. x0+w-1 (0-based) of
\* the block at addr.
NdArray(addr, y0, x0, h, w) ==
    [addr |-> addr, y0 |-> y0, x0 |-> x0, h |-> h, w |-> w]

Channels(st, a) == Len(st[a.addr].px[1][1])

\* pixels.shape
Shape(st, a) ==
    IF st[a.addr].ndim = 2 THEN <<a.h, a.w>> ELSE <<a.h, a.w, Channels(st, a)>>

\* the samples seen through an ndarray: Samples[row][col][channel], 1-based
Samples(st, a) ==
    [y \in 1..a.h |-> [x \in 1..a.w |-> st[a.addr].px[a.y0 + y][a.x0 + x]]]

Cells(a) ==
    {<<a.addr, a.y0 + y, a.x0 + x>> : y \in 1..a.h, x \in 1..a.w}

\* pixels[ya:yb, xa:xb]: basic slicing clamps to the shape and gives a view
Slice(a, ya, yb, xa, xb) ==
    LET ya1 == Min2(ya, a.h)
        yb1 == Min2(yb, a.h)
        xa1 == Min2(xa, a.w)
        xb1 == Min2(xb, a.w)
    IN  NdArray(a.addr, a.y0 + ya1, a.x0 + xa1,
                Max2(yb1 - ya1, 0), Max2(xb1 - xa1, 0))

\* Image(pixels, color_space)
Image(pixels, color_space) == [pixels |-> pixels, color_space |-> color_space]

\* a newly allocated block lands on the lowest free address
FreshAddr(st) == CHOOSE a \in Addr : st[a] = NoBlock /\ \A b \in Addr : st[b] = NoBlock => a <= b

---------------------------------------------------------------------------
(* Values an evaluation returns *)

\* from_python(parts): nested list of Images
ListValue(parts) == [type |-> "list", parts |-> parts]

ImageValue(img) == [type |-> "image", image |-> img]

\* evaluation.message(symbol, tag, args) records the message and returns None,
\* which leaves the expression unevaluated
Message(symbol, tag, args) ==
    [type |-> "message", symbol |-> symbol, tag |-> tag, args |-> args]

Outcome(value, st, tr, cells) ==
    [value |-> value, store |-> st, trace |-> tr, touched |-> cells]

---------------------------------------------------------------------------
(* ImagePartition *)

\* the message's argument, ListExpression(h, w): the pair the wrong way round
SizeSpec_Swapped(w, h) == <<h, w>>

\* ListExpression(w, h)
SizeSpec(w, h) == <<w, h>>

\* the tiles along an axis, counted by rounding up
TileCount_RoundUp(extent, size) == (extent + size - 1) \div size

\* shape[0] // py_h and shape[1] // py_w
TileCount(extent, size) == extent \div size

\* the slice with the axes mixed up: pixels[xi*w:(xi+1)*w, yi*h:(yi+1)*h]
TileSlice_Transposed(pixels, yi, xi, w, h) ==
    Slice(pixels, xi * w, (xi + 1) * w, yi * h, (yi + 1) * h)

\* pixels[yi * py_h : (yi + 1) * py_h, xi * py_w : (xi + 1) * py_w]
TileSlice(pixels, yi, xi, w, h) ==
    Slice(pixels, yi * h, (yi + 1) * h, xi * w, (xi + 1) * w)

\* every row appended, empty or not
KeepRows_All(rows) == rows

\* if row: parts.append(row)
KeepRows(rows) == SelectSeq(rows, LAMBDA row : row # <<>>)

\* ImagePartition.eval: "ImagePartition[image_Image, {w_Integer, h_Integer}]"
ImagePartition_eval(st, img, w, h) ==
    IF w <= 0 \/ h <= 0
    THEN Outcome(Message("ImagePartition", "arg2", SizeSpec(w, h)), st, <<>>, {})
    ELSE
        LET pixels == img.pixels
            shape == Shape(st, pixels)
            Tile(yi, xi) == Image(TileSlice(pixels, yi, xi, w, h), img.color_space)
            Row(yi) == [k \in 1..TileCount(shape[2], w) |-> Tile(yi, k - 1)]
            rows == [k \in 1..TileCount(shape[1], h) |-> Row(k - 1)]
            parts == KeepRows(rows)
            cells == UNION {Cells(parts[i][j].pixels) :
                              i \in 1..Len(parts), j \in 1..TileCount(shape[2], w)}
        IN  Outcome(ListValue(parts), st, <<>>, cells)

---------------------------------------------------------------------------
(* ImageAdjust *)

\* pixels_as_float(pixels): a float array is handed back as it is, any other
\* dtype is converted into a new float array (astype(float32) / 255.0)
pixels_as_float(st, a) ==
    IF st[a.addr].dtype = "float"
    THEN [array |-> a, store |-> st]
    ELSE
        LET n == FreshAddr(st)
            src == Samples(st, a)
            px == [y \in 1..a.h |-> [x \in 1..a.w |->
                      [c \in 1..Channels(st, a) |-> FDiv(src[y][x][c], <<255, 1>>)]]]
        IN  [array |-> NdArray(n, 0, 0, a.h, a.w),
             store |-> [st EXCEPT ![n] = Block("float", st[a.addr].ndim, px, <<>>)]]

\* the samples of channel c seen through ndarray a
ChannelSamples(st, a, c) ==
    {Samples(st, a)[y][x][c] : y \in 1..a.h, x \in 1..a.w}

\* pixels.max(axis=(0, 1)), one entry per channel (a 2-D array reduces to a
\* scalar, which line 85 wraps into an array of one entry)
ChannelMax(st, a) ==
    [c \in 1..Channels(st, a) |-> FMax(ChannelSamples(st, a, c))]

\* pixels.min(): one minimum over all channels
ChannelMin_Global(st, a) ==
    [c \in 1..Channels(st, a) |->
        FMin(UNION {ChannelSamples(st, a, k) : k \in 1..Channels(st, a)})]

\* pixels.min(axis=(0, 1))
ChannelMin(st, a) ==
    [c \in 1..Channels(st, a) |-> FMin(ChannelSamples(st, a, c))]

\* scales = cmaxs; scales[scales == 0.0] = 1
Scales_MaxOnly(cmaxs, cmins) ==
    [c \in 1..Len(cmaxs) |-> IF cmaxs[c] = Zero THEN One ELSE cmaxs[c]]

\* scales = cmaxs - cmins; scales[scales == 0.0] = 1
Scales(cmaxs, cmins) ==
    [c \in 1..Len(cmaxs) |->
        LET s == FSub(cmaxs[c], cmins[c]) IN IF s = Zero THEN One ELSE s]

\* pixels /= scales alone, the subtraction of cmins left out
NormaliseInPlace_NoShift(st, a, cmins, scales) ==
    LET blk == st[a.addr]
        Inside(y, x) ==
            /\ a.y0 < y /\ y <= a.y0 + a.h
            /\ a.x0 < x /\ x <= a.x0 + a.w
        px == [y \in 1..Len(blk.px) |-> [x \in 1..Len(blk.px[y]) |->
                  IF Inside(y, x)
                  THEN [c \in 1..Len(blk.px[y][x]) |-> FDiv(blk.px[y][x][c], scales[c])]
                  ELSE blk.px[y][x]]]
    IN  [st EXCEPT ![a.addr].px = px]

\* pixels -= cmins; pixels /= scales: in-place arithmetic writes through the
\* ndarray into its block
NormaliseInPlace(st, a, cmins, scales) ==
    LET blk == st[a.addr]
        Inside(y, x) ==
            /\ a.y0 < y /\ y <= a.y0 + a.h
            /\ a.x0 < x /\ x <= a.x0 + a.w
        px == [y \in 1..Len(blk.px) |-> [x \in 1..Len(blk.px[y]) |->
                  IF Inside(y, x)
                  THEN [c \in 1..Len(blk.px[y][x]) |->
                           FDiv(FSub(blk.px[y][x][c], cmins[c]), scales[c])]
                  ELSE blk.px[y][x]]]
    IN  [st EXCEPT ![a.addr].px = px]

\* ImageAdjust.eval_auto: "ImageAdjust[image_Image]"
eval_auto(st, img) ==
    LET conv == pixels_as_float(st, img.pixels)
        pixels == conv.array
        cmaxs == ChannelMax(conv.store, pixels)
        cmins == ChannelMin(conv.store, pixels)
        scales == Scales(cmaxs, cmins)
        st2 == NormaliseInPlace(conv.store, pixels, cmins, scales)
    IN  Outcome(ImageValue(Image(pixels, img.color_space)), st2, <<>>,
                Cells(img.pixels) \cup Cells(pixels))

\* image.pil(): a PIL image holding a copy of the samples
pil(st, img) ==
    [dtype |-> st[img.pixels.addr].dtype, ndim |-> st[img.pixels.addr].ndim,
     px |-> Samples(st, img.pixels), enh |-> <<>>]

\* PIL.ImageEnhance.<kind>(im).enhance(factor): a new PIL image
enhance(kind, im, factor) ==
    [im EXCEPT !.enh = Append(@, <<kind, factor>>)]

\* the record of one invocation of an external primitive
Invocation(kind, im, factor) ==
    [prim |-> kind, factor |-> factor, on |-> im.enh]

\* numpy.array(im): a new block holding the PIL image's samples
numpy_array(st, im) ==
    LET n == FreshAddr(st)
    IN  [array |-> NdArray(n, 0, 0, Len(im.px), Len(im.px[1])),
         store |-> [st EXCEPT ![n] = Block(im.dtype, im.ndim, im.px, im.enh)]]

\* the steps in the order gamma, contrast, brightness
eval_contrast_brightness_gamma_ContrastFirst(st, img, c, b, g) ==
    LET im0 == pil(st, img)
        im1 == IF g # 1 THEN enhance("Color", im0, g) ELSE im0
        tr1 == IF g # 1 THEN <<Invocation("Color", im0, g)>> ELSE <<>>
        im2 == IF c # 0 THEN enhance("Contrast", im1, c + 1) ELSE im1
        tr2 == IF c # 0 THEN Append(tr1, Invocation("Contrast", im1, c + 1)) ELSE tr1
        im3 == IF b # 0 THEN enhance("Brightness", im2, b + 1) ELSE im2
        tr3 == IF b # 0 THEN Append(tr2, Invocation("Brightness", im2, b + 1)) ELSE tr2
        out == numpy_array(st, im3)
    IN  Outcome(ImageValue(Image(out.array, img.color_space)), out.store, tr3,
                Cells(img.pixels) \cup Cells(out.array))

\* ImageAdjust.eval_contrast_brightness_gamma:
\* "ImageAdjust[image_Image, {c_?RealNumberQ, b_?RealNumberQ, g_?RealNumberQ}]"
eval_contrast_brightness_gamma(st, img, c, b, g) ==
    LET im0 == pil(st, img)
        \* gamma
        im1 == IF g # 1 THEN enhance("Color", im0, g) ELSE im0
        tr1 == IF g # 1 THEN <<Invocation("Color", im0, g)>> ELSE <<>>
        \* brightness
        im2 == IF b # 0 THEN enhance("Brightness", im1, b + 1) ELSE im1
        tr2 == IF b # 0 THEN Append(tr1, Invocation("Brightness", im1, b + 1)) ELSE tr1
        \* contrast
        im3 == IF c # 0 THEN enhance("Contrast", im2, c + 1) ELSE im2
        tr3 == IF c # 0 THEN Append(tr2, Invocation("Contrast", im2, c + 1)) ELSE tr2
        out == numpy_array(st, im3)
    IN  Outcome(ImageValue(Image(out.array, img.color_space)), out.store, tr3,
                Cells(img.pixels) \cup Cells(out.array))

---------------------------------------------------------------------------
(* Blur and Sharpen: the pixel work is done by external primitives *)

\* image.filter(f) and ImageConvolve[image, kernel]: a new Image whose block
\* is the primitive's output
external_filter(st, img, kind, arg) ==
    LET im == enhance(kind, pil(st, img), arg)
        out == numpy_array(st, im)
    IN  Outcome(ImageValue(Image(out.array, img.color_space)), out.store,
                <<Invocation(kind, pil(st, img), arg)>>,
                Cells(img.pixels) \cup Cells(out.array))

\* Sharpen.eval: "Sharpen[image_Image, r_?RealNumberQ]"
Sharpen_eval(st, img, r) == external_filter(st, img, "UnsharpMask", r)

---------------------------------------------------------------------------
(* Expressions, rewrite rules and evaluation *)

\* arguments carry their numbers as a tuple: one number, or the entries of a list
Num(v) == [kind |-> "num", v |-> <<v>>]

List(vs) == [kind |-> "list", v |-> vs]

\* head[img, rest...]
Expr(head, img, rest) == [head |-> head, img |-> img, rest |-> rest]

IsNum(e, i) == Len(e.rest) >= i /\ e.rest[i].kind = "num"

IsList(e, i, n) ==
    Len(e.rest) >= i /\ e.rest[i].kind = "list" /\ Len(e.rest[i].v) = n

\* Blur.rules
Blur_rules(e) ==
    IF e.head = "Blur" /\ Len(e.rest) = 0
        THEN Expr("Blur", e.img, <<Num(2)>>)
    ELSE IF e.head = "Blur" /\ Len(e.rest) = 1 /\ IsNum(e, 1)
        THEN Expr("ImageConvolve", e.img,
                  <<[kind |-> "BoxMatrix/Total", v |-> e.rest[1].v]>>)
    ELSE e

\* the rules with the defaults of brightness and gamma exchanged
ImageAdjust_rules_DefaultsSwapped(e) ==
    IF e.head = "ImageAdjust" /\ Len(e.rest) = 1 /\ IsNum(e, 1)
        THEN Expr("ImageAdjust", e.img, <<List(<<e.rest[1].v[1], 1, 0>>)>>)
    ELSE IF e.head = "ImageAdjust" /\ Len(e.rest) = 1 /\ IsList(e, 1, 2)
        THEN Expr("ImageAdjust", e.img,
                  <<List(<<e.rest[1].v[1], e.rest[1].v[2], 0>>)>>)
    ELSE e

\* ImageAdjust.rules
ImageAdjust_rules(e) ==
    IF e.head = "ImageAdjust" /\ Len(e.rest) = 1 /\ IsNum(e, 1)
        THEN Expr("ImageAdjust", e.img, <<List(<<e.rest[1].v[1], 0, 1>>)>>)
    ELSE IF e.head = "ImageAdjust" /\ Len(e.rest) = 1 /\ IsList(e, 1, 2)
        THEN Expr("ImageAdjust", e.img,
                  <<List(<<e.rest[1].v[1], e.rest[1].v[2], 1>>)>>)
    ELSE e

\* ImagePartition.rules
ImagePartition_rules(e) ==
    IF e.head = "ImagePartition" /\ Len(e.rest) = 1 /\ IsNum(e, 1)
        THEN Expr("ImagePartition", e.img, <<List(<<e.rest[1].v[1], e.rest[1].v[1]>>)>>)
    ELSE e

\* Sharpen.rules
Sharpen_rules(e) ==
    IF e.head = "Sharpen" /\ Len(e.rest) = 0
        THEN Expr("Sharpen", e.img, <<Num(2)>>)
    ELSE e

\* one rewriting step with the rules of the four builtins
Rewrite(e) ==
    Sharpen_rules(ImagePartition_rules(ImageAdjust_rules(Blur_rules(e))))

\* the eval method whose pattern (its docstring) matches the expression
Apply(st, e) ==
    IF e.head = "ImageAdjust" /\ Len(e.rest) = 0
        THEN eval_auto(st, e.img)
    ELSE IF e.head = "ImageAdjust" /\ Len(e.rest) = 1 /\ IsList(e, 1, 3)
        THEN eval_contrast_brightness_gamma(st, e.img,
                 e.rest[1].v[1], e.rest[1].v[2], e.rest[1].v[3])
    ELSE IF e.head = "ImagePartition" /\ Len(e.rest) = 1 /\ IsList(e, 1, 2)
        THEN ImagePartition_eval(st, e.img, e.rest[1].v[1], e.rest[1].v[2])
    ELSE IF e.head = "Sharpen" /\ Len(e.rest) = 1 /\ IsNum(e, 1)
        THEN Sharpen_eval(st, e.img, e.rest[1].v[1])
    ELSE IF e.head = "ImageConvolve"
        THEN external_filter(st, e.img, "ImageConvolve", e.rest[1].v[1])
    ELSE Outcome([type |-> "unevaluated"], st, <<>>, {})

\* rules are applied until none matches, then the builtin's eval method runs
RECURSIVE Evaluate(_, _)
Evaluate(st, e) ==
    IF Rewrite(e) # e THEN Evaluate(st, Rewrite(e)) ELSE Apply(st, e)

---------------------------------------------------------------------------
(* The session: an Image is imported, then expressions are evaluated on it *)
(* or on an Image of the previous result.                                  *)

\* the Images a value holds
ImagesOf(value) ==
    IF value.type = "image" THEN {value.image}
    ELSE IF value.type = "list"
        THEN {value.parts[i][j] :
                 i \in 1..Len(value.parts),
                 j \in 1..(IF value.parts = <<>> THEN 0 ELSE Len(value.parts[1]))}
    ELSE {}

\* Blocks no held Image refers to are released.  Held are the imported Image,
\* the Images of the value and, when the evaluation ended with a message, the
\* Image of the expression, which stays unevaluated.
Collect(st, value, e) ==
    LET held == {image} \cup ImagesOf(value)
                    \cup (IF value.type = "message" THEN {e.img} ELSE {})
        live == {i.pixels.addr : i \in held}
    IN  [a \in Addr |-> IF a \in live THEN st[a] ELSE NoBlock]

\* The session is a pipeline: an evaluation consumes the imported Image or
\* the Image auto-normalize has just returned.  A list of tiles or a message
\* is no Image, and what comes back from an external primitive (PIL, the
\* convolution) is opaque: none of these is fed into a further evaluation.
Targets ==
    IF /\ result.type = "image"
       /\ call.head = "Import" \/ (call.head = "ImageAdjust" /\ call.rest = <<>>)
    THEN {result.image}
    ELSE {}

TileSizes == -1..MaxTile

\* contrast and brightness, the identity 0 among them
Params == 0..MaxParam

\* gamma, the identity 1 among them
Gammas == 0..(MaxParam + 1)

Radii == 0..MaxRadius

\* a channel of the imported image is constant, rises by one or falls by two
\* from pixel to pixel, so that channels differ in their minimum and maximum
Seeds == {"constant", "rising", "falling"}

\* sample of the imported image at 0-based pixel index idx of n
SeedSample(seed, idx, n) ==
    IF seed = "constant" THEN <<1, 1>>
    ELSE IF seed = "rising" THEN <<1 + idx, 1>>
    ELSE <<2 * (n - idx) + 1, 1>>

InitialBlock(dtype, ndim, h, w, seeds) ==
    Block(dtype, ndim,
          [y \in 1..h |-> [x \in 1..w |->
              [c \in 1..Len(seeds) |->
                  SeedSample(seeds[c], (y - 1) * w + (x - 1), h * w)]]],
          <<>>)

Init ==
    \E dtype \in {"uint8", "float"}, ndim \in {2, 3},
       h \in 1..MaxH, w \in 1..MaxW, nc \in 1..MaxChan :
        \E seeds \in [1..nc -> Seeds] :
            /\ ndim = 2 => nc = 1
            /\ store = [a \in Addr |->
                          IF a = 1 THEN InitialBlock(dtype, ndim, h, w, seeds)
                          ELSE NoBlock]
            /\ image = Image(NdArray(1, 0, 0, h, w),
                             IF nc = 1 THEN "Grayscale" ELSE "RGB")
            /\ call = Expr("Import", image, <<>>)
            /\ result = ImageValue(image)
            /\ trace = <<>>
            /\ touched = {}

Do(e) ==
    \E out \in {Evaluate(store, e)} :
        /\ store' = Collect(out.store, out.value, e)
        /\ call' = e
        /\ result' = out.value
        /\ trace' = out.trace
        /\ touched' = out.touched
        /\ UNCHANGED image

BlurDefault == \E t \in Targets : Do(Expr("Blur", t, <<>>))

BlurRadius == \E t \in Targets, r \in Radii : Do(Expr("Blur", t, <<Num(r)>>))

AdjustAuto == \E t \in Targets : Do(Expr("ImageAdjust", t, <<>>))

AdjustContrast ==
    \E t \in Targets, c \in Params : Do(Expr("ImageAdjust", t, <<Num(c)>>))

AdjustContrastBrightness ==
    \E t \in Targets, c \in Params, b \in Params :
        Do(Expr("ImageAdjust", t, <<List(<<c, b>>)>>))

AdjustContrastBrightnessGamma ==
    \E t \in Targets, c \in Params, b \in Params, g \in Gammas :
        Do(Expr("ImageAdjust", t, <<List(<<c, b, g>>)>>))

PartitionSquare ==
    \E t \in Targets, s \in TileSizes : Do(Expr("ImagePartition", t, <<Num(s)>>))

Partition ==
    \E t \in Targets, w \in TileSizes, h \in TileSizes :
        Do(Expr("ImagePartition", t, <<List(<<w, h>>)>>))

SharpenDefault == \E t \in Targets : Do(Expr("Sharpen", t, <<>>))

SharpenRadius ==
    \E t \in Targets, r \in Radii : Do(Expr("Sharpen", t, <<Num(r)>>))

Next ==
    \/ BlurDefault
    \/ BlurRadius
    \/ AdjustAuto
    \/ AdjustContrast
    \/ AdjustContrastBrightness
    \/ AdjustContrastBrightnessGamma
    \/ PartitionSquare
    \/ Partition
    \/ SharpenDefault
    \/ SharpenRadius

Spec == Init /\ [][Next]_vars

---------------------------------------------------------------------------
(* What the last evaluation was *)

IsPartitionCall(e) == e.head = "ImagePartition"

\* tile width and height asked for, in either form of the call
TileW(e) == e.rest[1].v[1]

TileH(e) == IF e.rest[1].kind = "num" THEN e.rest[1].v[1] ELSE e.rest[1].v[2]

ValidPartition(e) == IsPartitionCall(e) /\ TileW(e) > 0 /\ TileH(e) > 0

InvalidPartition(e) == IsPartitionCall(e) /\ (TileW(e) <= 0 \/ TileH(e) <= 0)

\* rows = floor(height / tileHeight), cols = floor(width / tileWidth)
GridRows(e) == e.img.pixels.h \div TileH(e)

GridCols(e) == e.img.pixels.w \div TileW(e)

IsAutoCall(e) == e.head = "ImageAdjust" /\ e.rest = <<>>

---------------------------------------------------------------------------
(* ImagePartition: shape of the grid *)

\* C1 as stated: a valid partition call returns exactly rows row-sequences of
\* exactly cols tiles each, also when one of rows and cols is 0 and the other
\* is not.
C1_GridShapeAsClaimed ==
    ValidPartition(call) =>
        /\ result.type = "list"
        /\ Len(result.parts) = GridRows(call)
        /\ \A i \in 1..Len(result.parts) : Len(result.parts[i]) = GridCols(call)

\* C1 amended: every row-sequence of the grid holds exactly cols tiles; the
\* grid has exactly rows row-sequences when cols > 0, and no row-sequence at
\* all when cols = 0 (empty rows are not emitted).
C1_GridShape ==
    ValidPartition(call) =>
        /\ result.type = "list"
        /\ Len(result.parts) = (IF GridCols(call) > 0 THEN GridRows(call) ELSE 0)
        /\ \A i \in 1..Len(result.parts) : Len(result.parts[i]) = GridCols(call)

C1_Witness ==
    /\ ValidPartition(call)
    /\ GridRows(call) > 0
    /\ GridCols(call) = 0
    /\ result = ListValue(<<>>)

\* C2: tile (i, j) of a valid partition call holds exactly the source samples
\* of rows [i*tileHeight, (i+1)*tileHeight) and columns [j*tileWidth,
\* (j+1)*tileWidth) in the same relative positions, has tileHeight rows and
\* tileWidth columns and the source's colour space, and distinct tiles share
\* no source pixel.
C2_TileContent ==
    (ValidPartition(call) /\ result.type = "list") =>
        LET src == Samples(store, call.img.pixels)
            th == TileH(call)
            tw == TileW(call)
            P == {<<i, j>> \in (1..Len(result.parts)) \X (1..GridCols(call)) :
                     j <= Len(result.parts[i])}
        IN  /\ \A p \in P :
                LET tile == result.parts[p[1]][p[2]]
                    smp == Samples(store, tile.pixels)
                IN  /\ tile.pixels.h = th
                    /\ tile.pixels.w = tw
                    /\ tile.color_space = call.img.color_space
                    /\ \A r \in 1..th, c \in 1..tw :
                           smp[r][c] = src[(p[1] - 1) * th + r][(p[2] - 1) * tw + c]
            /\ \A p \in P, q \in P :
                p # q => Cells(result.parts[p[1]][p[2]].pixels)
                            \cap Cells(result.parts[q[1]][q[2]].pixels) = {}

C2_Witness ==
    /\ ValidPartition(call)
    /\ result.type = "list"
    /\ Len(result.parts) >= 2
    /\ Len(result.parts[2]) >= 2
    /\ TileW(call) >= 1
    /\ Samples(store, result.parts[2][2].pixels)[1][1]
           # Samples(store, result.parts[1][1].pixels)[1][1]

\* the source pixels of the trailing remainder strips of a partition call
Remainder(e) ==
    {c \in Cells(e.img.pixels) :
        \/ c[2] - e.img.pixels.y0 > GridRows(e) * TileH(e)
        \/ c[3] - e.img.pixels.x0 > GridCols(e) * TileW(e)}

\* C3: edge-drop.  After a valid partition call no tile holds a pixel of a
\* trailing remainder strip, every tile is exactly tileHeight x tileWidth (none
\* padded, none smaller) and lies inside the source, and with rows = 0 the
\* result is the empty grid, not a grid of empty rows.
C3_EdgeDrop ==
    (ValidPartition(call) /\ result.type = "list") =>
        /\ \A t \in ImagesOf(result) :
               /\ t.pixels.h = TileH(call)
               /\ t.pixels.w = TileW(call)
               /\ Cells(t.pixels) \subseteq Cells(call.img.pixels)
               /\ Cells(t.pixels) \cap Remainder(call) = {}
        /\ touched \cap Remainder(call) = {}
        /\ GridRows(call) = 0 => result.parts = <<>>

C3_Witness ==
    /\ ValidPartition(call)
    /\ ImagesOf(result) # {}
    /\ Remainder(call) # {}
    /\ GridCols(call) * TileW(call) < call.img.pixels.w

\* C4: a partition call with tileWidth <= 0 or tileHeight <= 0 returns no grid
\* and no tile: it reports message arg2 of ImagePartition with exactly the pair
\* (tileWidth, tileHeight), touches no pixel, and leaves the heap as it was.
C4_InvalidSize ==
    [][InvalidPartition(call') =>
          /\ result' = Message("ImagePartition", "arg2", <<TileW(call'), TileH(call')>>)
          /\ ImagesOf(result') = {}
          /\ touched' = {}
          /\ trace' = <<>>
          /\ store' = store]_vars

C4_Witness ==
    /\ InvalidPartition(call)
    /\ TileW(call) > 0
    /\ TileH(call) <= 0
    /\ result.type = "message"
    /\ result.args = <<TileW(call), TileH(call)>>

---------------------------------------------------------------------------
(* ImageAdjust *)

\* the samples of channel c of a sample array smp[row][col][channel]
ChannelOf(smp, c) ==
    {smp[y][x][c] : y \in 1..Len(smp), x \in 1..Len(smp[1])}

\* C5: auto-normalize takes minimum and maximum per channel (a 2-D buffer is
\* one channel) and gives (value - cmin) / (cmax - cmin) for every sample of a
\* non-constant channel: in the output such a channel has minimum 0, maximum 1
\* and all values in [0, 1], whatever the other channels hold.
C5_AutoNormalise ==
    [][IsAutoCall(call') =>
          /\ result'.type = "image"
          /\ result'.image.pixels.h = call'.img.pixels.h
          /\ result'.image.pixels.w = call'.img.pixels.w
          /\ LET inp == Samples(store, call'.img.pixels)
                 out == Samples(store', result'.image.pixels)
             IN  /\ Len(out[1][1]) = Len(inp[1][1])
                 /\ \A c \in 1..Len(inp[1][1]) :
                        Cardinality(ChannelOf(inp, c)) > 1 =>
                            /\ \E lo \in ChannelOf(inp, c), hi \in ChannelOf(inp, c) :
                                   /\ \A v \in ChannelOf(inp, c) : FLe(lo, v) /\ FLe(v, hi)
                                   /\ \A y \in 1..Len(inp), x \in 1..Len(inp[1]) :
                                          out[y][x][c] =
                                              FDiv(FSub(inp[y][x][c], lo), FSub(hi, lo))
                            /\ Zero \in ChannelOf(out, c)
                            /\ One \in ChannelOf(out, c)
                            /\ \A v \in ChannelOf(out, c) : FLe(Zero, v) /\ FLe(v, One)]_vars

C5_Witness ==
    /\ IsAutoCall(call)
    /\ result.type = "image"
    /\ LET out == Samples(store, result.image.pixels)
       IN  /\ Len(out[1][1]) = 2
           /\ \A c \in 1..2 :
                  /\ {Zero, One} \subseteq ChannelOf(out, c)
                  /\ Cardinality(ChannelOf(out, c)) >= 3
           /\ out[1][1][1] # out[1][1][2]

\* C6: auto-normalize handles a channel that holds one constant v in every
\* pixel without error, and that channel is 0 everywhere in the output, in a
\* single-channel buffer as well as next to non-constant channels.
C6_ConstantChannel ==
    [][IsAutoCall(call') =>
          /\ result'.type = "image"
          /\ LET inp == Samples(store, call'.img.pixels)
                 out == Samples(store', result'.image.pixels)
             IN  \A c \in 1..Len(inp[1][1]) :
                     Cardinality(ChannelOf(inp, c)) = 1 => ChannelOf(out, c) = {Zero}]_vars

C6_Witness ==
    /\ IsAutoCall(call)
    /\ result.type = "image"
    /\ result.image.pixels.w > 1
    /\ LET out == Samples(store, result.image.pixels)
       IN  /\ Len(out[1][1]) = 2
           /\ ChannelOf(out, 1) = {Zero}
           /\ One \in ChannelOf(out, 2)

\* the steps of adjustParams(contrast c, brightness b, gamma g) that are not
\* the identity, in the order gamma, brightness, contrast
ParamSteps(c, b, g) ==
    SelectSeq(<<[prim |-> "Color", factor |-> g, skip |-> g = 1],
                [prim |-> "Brightness", factor |-> b + 1, skip |-> b = 0],
                [prim |-> "Contrast", factor |-> c + 1, skip |-> c = 0]>>,
              LAMBDA s : ~s.skip)

C8_NoInputMutated ==
    [][/\ Samples(store', image.pixels) = Samples(store, image.pixels)
       /\ store'[call'.img.pixels.addr] # NoBlock =>
              Samples(store', call'.img.pixels) = Samples(store, call'.img.pixels)
       /\ \A r \in ImagesOf(result') : store[r.pixels.addr] = NoBlock]_vars

\* C9: auto-normalize applied to the output of auto-normalize returns the
\* same buffer.
C9_AutoFixedPoint ==
    [][(IsAutoCall(call) /\ IsAutoCall(call')) =>
          /\ result'.type = "image"
          /\ result'.image.color_space = result.image.color_space
          /\ Samples(store', result'.image.pixels)
                 = Samples(store, result.image.pixels)]_vars

\* auto-normalize was applied to a float buffer that auto-normalize had made
\* from the imported uint8 buffer, all of whose channels are non-constant
C9_Witness ==
    /\ IsAutoCall(call)
    /\ store[image.pixels.addr].dtype = "uint8"
    /\ call.img.pixels.addr # image.pixels.addr
    /\ result.type = "image"
    /\ result.image = call.img
    /\ \A c \in 1..Channels(store, image.pixels) :
           /\ Cardinality(ChannelOf(Samples(store, image.pixels), c)) > 2
           /\ Cardinality(ChannelOf(Samples(store, result.image.pixels), c)) > 2

\* the expanded form of a convenience form
Expanded(e) ==
    IF e.head = "ImagePartition" /\ IsNum(e, 1)
        THEN Expr(e.head, e.img, <<List(<<e.rest[1].v[1], e.rest[1].v[1]>>)>>)
    ELSE IF e.head = "ImageAdjust" /\ IsNum(e, 1)
        THEN Expr(e.head, e.img, <<List(<<e.rest[1].v[1], 0, 1>>)>>)
    ELSE IF e.head = "ImageAdjust" /\ IsList(e, 1, 2)
        THEN Expr(e.head, e.img, <<List(<<e.rest[1].v[1], e.rest[1].v[2], 1>>)>>)
    ELSE IF e.head \in {"Blur", "Sharpen"} /\ e.rest = <<>>
        THEN Expr(e.head, e.img, <<Num(2)>>)
    ELSE e

\* C10: a convenience form has the outcome (result or message, heap and
\* primitives invoked) of its expanded form: partition(buffer, s) of
\* partition(buffer, s, s), also for s <= 0; adjustParams(buffer, c) of
\* adjustParams(buffer, c, 0, 1); adjustParams(buffer, (c, b)) of
\* adjustParams(buffer, c, b, 1); blur(buffer) and sharpen(buffer) of
\* blur(buffer, 2) and sharpen(buffer, 2).
C10_Convenience ==
    [][Expanded(call') # call' =>
          \E out \in {Evaluate(store, Expanded(call'))} :
              /\ result' = out.value
              /\ trace' = out.trace
              /\ touched' = out.touched
              /\ store' = Collect(out.store, out.value, Expanded(call'))]_vars

C10_Witness ==
    /\ call.head = "ImageAdjust"
    /\ IsNum(call, 1)
    /\ call.rest[1].v[1] # 0
    /\ Len(trace) = 1
    /\ trace[1].prim = "Contrast"
    /\ trace[1].factor = call.rest[1].v[1] + 1

====
